---- MODULE Spec2Model ----
(***************************************************************************)
(* The GetWorklogs HTTP function (src/GetWorklogs/index.js): the handler   *)
(* that validates the query, and TempoService, which pages through the     *)
(* time-tracking list endpoint, enriches the accumulated worklogs with     *)
(* issue keys from the issue-tracking service and transforms them into the *)
(* output records.                                                         *)
(*                                                                         *)
(* The variables hold one invocation.  The handler suspends at each await; *)
(* the two upstream services are the environment and answer each           *)
(* outstanding call with a success or a failure.  A second invocation of   *)
(* the same function app is held in `parked` while the first one runs.     *)
(***************************************************************************)
EXTENDS Integers, Sequences, FiniteSets, TLC

VARIABLES
    pc,           \* where the invocation stands
    env,          \* process.env: TEMPO_API_TOKEN, JIRA_API_TOKEN
    upstream,     \* the time-tracking service: its record count and marker policy
    req,          \* req.query: startDate, endDate, format
    offset,       \* getWorklogs: let offset
    hasMore,      \* getWorklogs: let hasMore
    allWorklogs,  \* getWorklogs: const allWorklogs (mutated by enrich)
    tempoCalls,   \* params of the GET /worklogs calls issued, in order
    pages,        \* the successful page responses received, in order
    jiraCalls,    \* bodies of the POST /rest/api/3/search/jql calls issued
    jiraReply,    \* how the issue lookup ended, with the issues it returned
    returned,     \* what getWorklogs returned (the transformed records)
    error,        \* the error caught by the handler
    res,          \* context.res
    resWrites,    \* number of assignments to context.res
    parked        \* the other invocation, suspended: its own copy of the above

vars == <<pc, env, upstream, req, offset, hasMore, allWorklogs, tempoCalls,
          pages, jiraCalls, jiraReply, returned, error, res, resWrites, parked>>

----------------------------------------------------------------------------
(* Bounds of the model *)

\* full pages the upstream may hold
MaxFullPages == 1
\* distinct issue identifiers referenced by worklogs
MaxIssue == 2

----------------------------------------------------------------------------
(* Optional values: undefined/null is Nil, a present value v is Some(v) *)

Nil == <<>>
Some(v) == <<v>>
IsSome(o) == o # Nil
Val(o) == o[1]

\* JavaScript `a || b` on an optional whose present values are truthy
OrElse(o, d) == IF IsSome(o) THEN Val(o) ELSE d

Min(a, b) == IF a < b THEN a ELSE b

----------------------------------------------------------------------------
(* Query strings, as sequences of characters *)

Digits == {"0", "1", "2", "3", "4", "5", "6", "7", "8", "9"}

DigitVal(c) ==
    CASE c = "0" -> 0 [] c = "1" -> 1 [] c = "2" -> 2 [] c = "3" -> 3
      [] c = "4" -> 4 [] c = "5" -> 5 [] c = "6" -> 6 [] c = "7" -> 7
      [] c = "8" -> 8 [] c = "9" -> 9

\* "2026-01-01"
D20260101 == <<"2", "0", "2", "6", "-", "0", "1", "-", "0", "1">>
\* "2026-01-31"
D20260131 == <<"2", "0", "2", "6", "-", "0", "1", "-", "3", "1">>
\* "2026-02-01"
D20260201 == <<"2", "0", "2", "6", "-", "0", "2", "-", "0", "1">>
\* "2026-13-45": the pattern of a date, no day of the calendar
D20261345 == <<"2", "0", "2", "6", "-", "1", "3", "-", "4", "5">>
\* "01/02/2026"
DSlashed == <<"0", "1", "/", "0", "2", "/", "2", "0", "2", "6">>
\* "flat"
FlatStr == <<"f", "l", "a", "t">>
\* "json"
JsonStr == <<"j", "s", "o", "n">>

\* the values the startDate parameter takes: absent, empty, or a string
StartDateParams == {Nil, Some(<<>>), Some(DSlashed), Some(D20261345),
                    Some(D20260101), Some(D20260131), Some(D20260201)}

\* the values the endDate parameter takes
EndDateParams == {Nil, Some(DSlashed), Some(D20260131)}

FormatParams == {Nil, Some(FlatStr), Some(JsonStr)}

\* !x for a query parameter: undefined or the empty string
Falsy(p) == p = Nil \/ Val(p) = <<>>

\* /^\d{4}-\d{2}-\d{2}$/.test(s)
dateRegex(s) ==
    /\ Len(s) = 10
    /\ \A i \in {1, 2, 3, 4, 6, 7, 9, 10} : s[i] \in Digits
    /\ s[5] = "-"
    /\ s[8] = "-"

YearOf(s) == 1000 * DigitVal(s[1]) + 100 * DigitVal(s[2])
             + 10 * DigitVal(s[3]) + DigitVal(s[4])
MonthOf(s) == 10 * DigitVal(s[6]) + DigitVal(s[7])
DayOf(s) == 10 * DigitVal(s[9]) + DigitVal(s[10])

IsLeap(y) == (y % 4 = 0 /\ y % 100 # 0) \/ y % 400 = 0

DaysInMonth(y, m) ==
    IF m = 2 THEN (IF IsLeap(y) THEN 29 ELSE 28)
    ELSE IF m \in {4, 6, 9, 11} THEN 30 ELSE 31

RECURSIVE DaysBeforeMonth(_, _)
DaysBeforeMonth(y, m) ==
    IF m <= 1 THEN 0 ELSE DaysBeforeMonth(y, m - 1) + DaysInMonth(y, m - 1)

\* days from 1970-01-01 to January 1st of year y (y >= 1970)
DayFromYear(y) ==
    365 * (y - 1970) + ((y - 1969) \div 4) - ((y - 1901) \div 100)
    + ((y - 1601) \div 400)

\* new Date(s) for a string that matches dateRegex: the time value in days,
\* or Nil for an Invalid Date (NaN): a month outside 1..12 or a day
\* outside 1..31 is an illegal element of the date-time string format.
\* (A day within 1..31 beyond the month's end runs on into the next month;
\* no query of StartDateParams or EndDateParams holds such a day.)
NewDate(s) ==
    IF MonthOf(s) \in 1..12 /\ DayOf(s) \in 1..31
    THEN Some(DayFromYear(YearOf(s)) + DaysBeforeMonth(YearOf(s), MonthOf(s))
              + DayOf(s) - 1)
    ELSE Nil

\* a > b on two Dates: false as soon as one of them is NaN
DateGreater(a, b) == IsSome(a) /\ IsSome(b) /\ Val(a) > Val(b)

----------------------------------------------------------------------------
(* The time-tracking service and its records *)

\* const limit = 50
limit == 50

\* page calls the upstream answers before it stops sending a next marker
MaxCalls == MaxFullPages + 2

IssueIds == 1..MaxIssue

\* record counts the upstream may hold: at and next to each page boundary
RecordCounts ==
    {p * limit + r : p \in 0..MaxFullPages, r \in {0, 1}}
    \cup {p * limit - 1 : p \in 1..MaxFullPages}

\* how the upstream decides to attach metadata.next:
\*   markFull       on every page that carries `limit` records
\*   markRemaining  while records remain beyond the page
\*   loose          on any page, and otherwise it leaves out the metadata
\*                  and, of a page without records, the results
Policies == {"markFull", "markRemaining", "loose"}

\* the timeSpentSeconds of the upstream records, in rotation: whole
\* hundredths of an hour, quotients half-way between two hundredths (54,
\* 450, 18, 522) and quotients that need rounding (35, 5399)
SecondsTable == <<5400, 3600, 900, 36, 54, 450, 18, 522, 35, 5399>>

\* the issue reference of the i-th upstream record: none, one without an
\* identifier, or one with an identifier; of the latter every other run
\* carries neither key nor summary (as the list endpoint sends it) and
\* the runs between carry a key and a summary already
RawIssue(i) ==
    LET r == (i - 1) % (MaxIssue + 2)
        keyed == ((i - 1) \div (MaxIssue + 2)) % 2 = 1
    IN  IF r = 0 THEN Nil
        ELSE IF r = 1 THEN Some([id |-> Nil, key |-> Nil, summary |-> Nil])
        ELSE Some([id |-> Some(r - 1),
                   key |-> IF keyed THEN Some("OLD-" \o ToString(r - 1)) ELSE Nil,
                   summary |-> IF keyed THEN Some("old summary") ELSE Nil])

RawAuthor(i) ==
    LET r == (i - 1) % 3
    IN  IF r = 0 THEN Nil
        ELSE IF r = 1 THEN Some([accountId |-> Nil, displayName |-> Nil])
        ELSE Some([accountId |-> Some("acc-" \o ToString(i)),
                   displayName |-> Some("User " \o ToString(i))])

\* the i-th record the upstream holds (a RawWorklog)
RawWorklog(i) ==
    [tempoWorklogId |-> i,
     issue |-> RawIssue(i),
     startDate |-> "2026-01-15",
     startTime |-> IF i % 2 = 1 THEN Nil ELSE Some("09:00:00"),
     timeSpentSeconds |-> SecondsTable[(i % Len(SecondsTable)) + 1],
     description |-> IF i % 2 = 1 THEN Nil ELSE Some("work"),
     author |-> RawAuthor(i),
     createdAt |-> "2026-01-15T10:00:00Z",
     updatedAt |-> "2026-01-16T10:00:00Z"]

\* the records of the window [off, off + lim) of an upstream holding n
Window(n, off, lim) ==
    [k \in 1..(IF off >= n THEN 0 ELSE Min(lim, n - off)) |-> RawWorklog(off + k)]

\* a successful response of GET /worklogs: response.data
PageData(results, marker) ==
    [results |-> results,
     metadata |-> Some([next |-> IF marker THEN Some("next-url") ELSE Nil])]

\* the responses the upstream may give to the call with these params,
\* the callNo-th call of the request
PageResponses(up, params, callNo) ==
    LET w == Window(up.n, params.offset, params.limit)
    IN  CASE up.policy = "markFull" ->
               {PageData(Some(w), Len(w) = params.limit)}
          [] up.policy = "markRemaining" ->
               {PageData(Some(w), params.offset + params.limit < up.n)}
          [] up.policy = "loose" ->
               (IF callNo < MaxCalls THEN {PageData(Some(w), TRUE)} ELSE {})
               \cup {[results |-> IF Len(w) = 0 THEN Nil ELSE Some(w),
                      metadata |-> Nil]}

\* the errors axios rejects a call with: no response at all, or a response
\* with a non-success status, with a body (with or without a message) or
\* without one
UpstreamErrors ==
    {[message |-> "Network Error", response |-> Nil],
     [message |-> "Request failed with status code 401",
      response |-> Some([status |-> 401,
                         data |-> Some([message |-> Some("Unauthorized")])])],
     [message |-> "Request failed with status code 429",
      response |-> Some([status |-> 429, data |-> Some([message |-> Nil])])],
     [message |-> "Request failed with status code 503",
      response |-> Some([status |-> 503, data |-> Nil])]}

----------------------------------------------------------------------------
(* The issue-tracking service *)

KeyOf(n) == "PROJ-" \o ToString(n)
SummaryOf(n) == "Summary of issue " \o ToString(n)

\* one entry of response.data.issues; a malformed entry has no fields
IssueEntry(n, wellFormed) ==
    [id |-> n, key |-> Some(KeyOf(n)),
     fields |-> IF wellFormed THEN Some([summary |-> Some(SummaryOf(n))]) ELSE Nil]

RECURSIVE SetToSeq(_)
\* the elements of a set of integers, ascending
SetToSeq(S) ==
    IF S = {} THEN <<>>
    ELSE LET m == CHOOSE x \in S : \A y \in S : x <= y
         IN  <<m>> \o SetToSeq(S \ {m})

\* the identifier sets a lookup may match: the first k identifiers, or
\* the last one alone
MatchSets == {1..k : k \in 0..MaxIssue} \cup {{MaxIssue}}

\* the issue lists a lookup may return: the entries of a match set,
\* ascending, all well-formed or the last one malformed
IssueLists ==
    {[k \in 1..Cardinality(S) |->
         IssueEntry(SetToSeq(S)[k], lastOk \/ k < Cardinality(S))] :
        S \in MatchSets, lastOk \in BOOLEAN}

\* the errors the POST rejects with
LookupErrors ==
    {[message |-> "Network Error", response |-> Nil],
     [message |-> "Request failed with status code 403",
      response |-> Some([status |-> 403,
                         data |-> Some([message |-> Some("Forbidden")])])]}

\* how the POST ends: rejected with an error, or resolved with response.data
JiraReplies ==
    {[ok |-> FALSE, data |-> Nil, error |-> Some(e)] : e \in LookupErrors}
    \cup {[ok |-> TRUE, data |-> Nil, error |-> Nil]}
    \cup {[ok |-> TRUE, data |-> Some([issues |-> Nil]), error |-> Nil]}
    \cup {[ok |-> TRUE, data |-> Some([issues |-> Some(l)]), error |-> Nil] :
             l \in IssueLists}

----------------------------------------------------------------------------
(* TempoService: the pure parts *)

Range(s) == {s[k] : k \in DOMAIN s}

\* worklog.issue?.id
IssueIdOf(w) == IF IsSome(w.issue) THEN Val(w.issue).id ELSE Nil

\* [...new Set(s)]: the first occurrence of each element, in order
Distinct(s) ==
    LET first == {k \in 1..Len(s) : \A j \in 1..(k - 1) : s[j] # s[k]}
        nth(i) == CHOOSE k \in first : Cardinality({j \in first : j <= k}) = i
    IN  [i \in 1..Cardinality(first) |-> s[nth(i)]]

\* issueIds without the Set: every reference, repeated ones included
issueIdsWithDuplicates(worklogs) ==
    LET mapped == [k \in 1..Len(worklogs) |-> IssueIdOf(worklogs[k])]
        present == SelectSeq(mapped, IsSome)
    IN  [k \in 1..Len(present) |-> Val(present[k])]

\* [...new Set(worklogs.map(w => w.issue?.id).filter(Boolean))]
issueIds(worklogs) ==
    LET mapped == [k \in 1..Len(worklogs) |-> IssueIdOf(worklogs[k])]
        present == SelectSeq(mapped, IsSome)
    IN  Distinct([k \in 1..Len(present) |-> Val(present[k])])

\* the body of the POST /rest/api/3/search/jql; jql is `id in (<ids>)`
JqlRequest(ids) ==
    [jql |-> [field |-> "id", isIn |-> ids],
     fields |-> <<"key", "summary">>,
     maxResults |-> Len(ids)]

\* whether lines 230-236 throw: response.data or its issues missing, or
\* an entry without fields (issue.fields.summary)
MapThrows(reply) ==
    \/ reply.data = Nil
    \/ Val(reply.data).issues = Nil
    \/ \E k \in DOMAIN Val(Val(reply.data).issues) :
          Val(Val(reply.data).issues)[k].fields = Nil

\* issueMap of lines 230-236: identifier -> {key, summary}, the last
\* entry of an identifier winning
issueMap(issues) ==
    [n \in {issues[k].id : k \in DOMAIN issues} |->
        LET k == CHOOSE j \in DOMAIN issues :
                    /\ issues[j].id = n
                    /\ \A h \in DOMAIN issues : issues[h].id = n => h <= j
        IN  [key |-> issues[k].key, summary |-> Val(issues[k].fields).summary]]

\* EnrichOne writing the looked-up fields of every referenced issue,
\* matched or not
EnrichOneClearsUnmatched(w, map) ==
    IF IsSome(IssueIdOf(w))
    THEN IF Val(IssueIdOf(w)) \in DOMAIN map
         THEN [w EXCEPT !.issue =
                 Some([Val(w.issue) EXCEPT !.key = map[Val(IssueIdOf(w))].key,
                                           !.summary = map[Val(IssueIdOf(w))].summary])]
         ELSE [w EXCEPT !.issue =
                 Some([Val(w.issue) EXCEPT !.key = Nil, !.summary = Nil])]
    ELSE w

\* EnrichOne adding the looked-up summary to the one the worklog has
EnrichOneAppendsSummary(w, map) ==
    IF IsSome(IssueIdOf(w)) /\ Val(IssueIdOf(w)) \in DOMAIN map
    THEN [w EXCEPT !.issue =
            Some([Val(w.issue) EXCEPT
                    !.key = map[Val(IssueIdOf(w))].key,
                    !.summary = Some(OrElse(Val(w.issue).summary, "") \o " "
                                     \o OrElse(map[Val(IssueIdOf(w))].summary, ""))])]
    ELSE w

\* the body of the loop of lines 239-244 on one worklog
EnrichOne(w, map) ==
    IF IsSome(IssueIdOf(w)) /\ Val(IssueIdOf(w)) \in DOMAIN map
    THEN [w EXCEPT !.issue =
            Some([Val(w.issue) EXCEPT !.key = map[Val(IssueIdOf(w))].key,
                                      !.summary = map[Val(IssueIdOf(w))].summary])]
    ELSE w

\* Enriched merging each entry as it is read: the entries before a
\* malformed one have already been written to the worklogs
EnrichedPartial(worklogs, reply) ==
    IF reply.data = Nil \/ Val(reply.data).issues = Nil THEN worklogs
    ELSE LET issues == Val(Val(reply.data).issues)
             good == {k \in DOMAIN issues :
                         \A j \in 1..k : issues[j].fields # Nil}
             map == issueMap([k \in good |-> issues[k]])
         IN  [k \in 1..Len(worklogs) |-> EnrichOne(worklogs[k], map)]

\* lines 229-248: the worklogs once the POST has resolved with `reply`
Enriched(worklogs, reply) ==
    IF MapThrows(reply) THEN worklogs
    ELSE LET map == issueMap(Val(Val(reply.data).issues))
         IN  [k \in 1..Len(worklogs) |-> EnrichOne(worklogs[k], map)]

TwoDigits(n) == IF n < 10 THEN "0" \o ToString(n) ELSE ToString(n)

RECURSIVE ExponentUp(_)
ExponentUp(s) == IF s \div 2 >= 3600 THEN 1 + ExponentUp(s \div 2) ELSE 0

RECURSIVE ExponentDown(_)
ExponentDown(s) == IF s >= 3600 THEN 0 ELSE ExponentDown(2 * s) - 1

\* the binary exponent of the double seconds / 3600, seconds > 0: the t
\* with 2^t <= seconds / 3600 < 2^(t+1)
BinaryExponent(s) == IF s >= 3600 THEN ExponentUp(s) ELSE ExponentDown(s)

RECURSIVE Pow2Mod225(_)
Pow2Mod225(e) == IF e = 0 THEN 1 ELSE (2 * Pow2Mod225(e - 1)) % 225

\* whether the double seconds / 3600 lies above the real quotient.  The
\* 53-bit significand is seconds * 2^(48 - t) / 225 rounded to the
\* nearest integer (3600 = 2^4 * 225), so the division rounds up exactly
\* when the remainder modulo 225 exceeds half of 225.
QuotientRoundsUp(s) ==
    2 * (((s % 225) * Pow2Mod225(48 - BinaryExponent(s))) % 225) > 225

\* toFixed(2) keeping the integer part of the hundredths
HundredthsTruncated(seconds) == seconds \div 36

\* the n of (seconds / 3600).toFixed(2): the integer nearest to 100 times
\* the double, the larger one when the double lies half-way.  100 times
\* the real quotient is seconds / 36; unless it lies half-way (remainder
\* 18) the double rounds like it; when it does, the double lies half-way
\* too if it is exact (225 divides seconds), else on the side the
\* division rounded to.
Hundredths(seconds) ==
    LET k == seconds \div 36
        m == seconds % 36
    IN  IF m < 18 THEN k
        ELSE IF m > 18 THEN k + 1
        ELSE IF seconds % 225 = 0 \/ QuotientRoundsUp(seconds) THEN k + 1
        ELSE k

\* (seconds / 3600).toFixed(2): the digits of n with two decimals
HoursToFixed2(seconds) ==
    LET h == Hundredths(seconds)
    IN  ToString(h \div 100) \o "." \o TwoDigits(h % 100)

\* IssueKeyOf defaulting to the empty string
IssueKeyOfEmptyDefault(w) ==
    IF IsSome(w.issue) THEN OrElse(Val(w.issue).key, "") ELSE ""

\* worklog.issue?.key || 'N/A'
IssueKeyOf(w) ==
    IF IsSome(w.issue) THEN OrElse(Val(w.issue).key, "N/A") ELSE "N/A"

\* lines 257-273 on one worklog
TransformOne(w) ==
    [id |-> w.tempoWorklogId,
     issueKey |-> IssueKeyOf(w),
     issueId |-> IssueIdOf(w),
     issueSummary |-> IF IsSome(w.issue) THEN Val(w.issue).summary ELSE Nil,
     date |-> w.startDate,
     startTime |-> w.startTime,
     timeSpentSeconds |-> w.timeSpentSeconds,
     timeSpentHours |-> HoursToFixed2(w.timeSpentSeconds),
     description |-> OrElse(w.description, ""),
     author |-> [accountId |-> IF IsSome(w.author) THEN Val(w.author).accountId ELSE Nil,
                 displayName |-> IF IsSome(w.author)
                                 THEN OrElse(Val(w.author).displayName, "Unknown")
                                 ELSE "Unknown"],
     createdAt |-> w.createdAt,
     updatedAt |-> w.updatedAt]

\* worklogs.map(worklog => ({...}))
transformWorklogs(worklogs) ==
    [k \in 1..Len(worklogs) |-> TransformOne(worklogs[k])]

RECURSIVE SumSeconds(_, _)
\* the reduce over the first k worklogs
SumSeconds(worklogs, k) ==
    IF k = 0 THEN 0
    ELSE SumSeconds(worklogs, k - 1) + worklogs[k].timeSpentSeconds

\* worklogs.reduce((sum, w) => sum + w.timeSpentSeconds, 0)
totalSeconds(worklogs) == SumSeconds(worklogs, Len(worklogs))

\* parseFloat((totalSeconds / 3600).toFixed(2)), as a count of hundredths
totalHours(seconds) == [hundredths |-> Hundredths(seconds)]

----------------------------------------------------------------------------
(* The handler: responses *)

Response(status, body) ==
    Some([status |-> status,
          headers |-> [ContentType |-> "application/json"],
          body |-> body])

\* a JSON object body, a JSON array body
ObjectBody(props) == [isArray |-> FALSE, props |-> props]
ArrayBody(elems) == [isArray |-> TRUE, elems |-> elems]

\* lines 20-73: the response of the first failing check, Nil when all pass
Validate(q, e) ==
    IF Falsy(q.startDate) \/ Falsy(q.endDate)
    THEN Response(400, ObjectBody(
            [error |-> "Missing required parameters",
             message |-> "Both startDate and endDate query parameters are required (format: YYYY-MM-DD)",
             example |-> "/api/worklogs?startDate=2026-01-01&endDate=2026-01-31"]))
    ELSE IF ~dateRegex(Val(q.startDate)) \/ ~dateRegex(Val(q.endDate))
    THEN Response(400, ObjectBody(
            [error |-> "Invalid date format",
             message |-> "Dates must be in YYYY-MM-DD format",
             provided |-> [startDate |-> Val(q.startDate), endDate |-> Val(q.endDate)]]))
    ELSE IF DateGreater(NewDate(Val(q.startDate)), NewDate(Val(q.endDate)))
    THEN Response(400, ObjectBody(
            [error |-> "Invalid date range",
             message |-> "startDate must be before or equal to endDate"]))
    ELSE IF e.TEMPO_API_TOKEN = Nil
    THEN Response(500, ObjectBody(
            [error |-> "Configuration error",
             message |-> "TEMPO_API_TOKEN is not configured"]))
    ELSE Nil

\* SuccessResponse taking any format that is given for flat
SuccessResponseAnyFormat(q, worklogs) ==
    IF IsSome(q.format)
    THEN Response(200, ArrayBody(worklogs))
    ELSE Response(200, ObjectBody(
            [success |-> TRUE,
             query |-> [startDate |-> Val(q.startDate), endDate |-> Val(q.endDate)],
             summary |-> [totalWorklogs |-> Len(worklogs),
                          totalHours |-> totalHours(totalSeconds(worklogs)),
                          totalSeconds |-> totalSeconds(worklogs)],
             worklogs |-> worklogs]))

\* lines 86-117: the response to a pipeline that returned `worklogs`
SuccessResponse(q, worklogs) ==
    IF q.format = Some(FlatStr)
    THEN Response(200, ArrayBody(worklogs))
    ELSE Response(200, ObjectBody(
            [success |-> TRUE,
             query |-> [startDate |-> Val(q.startDate), endDate |-> Val(q.endDate)],
             summary |-> [totalWorklogs |-> Len(worklogs),
                          totalHours |-> totalHours(totalSeconds(worklogs)),
                          totalSeconds |-> totalSeconds(worklogs)],
             worklogs |-> worklogs]))

\* FailureResponse that answers 500 whatever the error carries
FailureResponseAlways500(e) ==
    Response(
        500,
        ObjectBody(
            [error |-> "Failed to retrieve worklogs",
             message |-> IF IsSome(e.response) /\ IsSome(Val(e.response).data)
                         THEN OrElse(Val(Val(e.response).data).message, e.message)
                         ELSE e.message,
             details |-> IF IsSome(e.response) THEN Val(e.response).data ELSE Nil]))

\* lines 119-134: the response to a pipeline that threw `e`
FailureResponse(e) ==
    Response(
        IF IsSome(e.response) THEN Val(e.response).status ELSE 500,
        ObjectBody(
            [error |-> "Failed to retrieve worklogs",
             message |-> IF IsSome(e.response) /\ IsSome(Val(e.response).data)
                         THEN OrElse(Val(Val(e.response).data).message, e.message)
                         ELSE e.message,
             details |-> IF IsSome(e.response) THEN Val(e.response).data ELSE Nil]))

----------------------------------------------------------------------------
(* The invocation *)

NoQuery == [startDate |-> Nil, endDate |-> Nil, format |-> Nil]

\* an invocation that has not run yet
NewInvocation ==
    [pc |-> "start", req |-> NoQuery, offset |-> 0, hasMore |-> TRUE,
     allWorklogs |-> <<>>, tempoCalls |-> <<>>, pages |-> <<>>,
     jiraCalls |-> <<>>, jiraReply |-> Nil, returned |-> Nil, error |-> Nil,
     res |-> Nil, resWrites |-> 0]

\* the state of the invocation that runs, everything but the process
\* environment and the upstream
StartsNew ==
    /\ pc = NewInvocation.pc
    /\ req = NewInvocation.req
    /\ offset = NewInvocation.offset
    /\ hasMore = NewInvocation.hasMore
    /\ allWorklogs = NewInvocation.allWorklogs
    /\ tempoCalls = NewInvocation.tempoCalls
    /\ pages = NewInvocation.pages
    /\ jiraCalls = NewInvocation.jiraCalls
    /\ jiraReply = NewInvocation.jiraReply
    /\ returned = NewInvocation.returned
    /\ error = NewInvocation.error
    /\ res = NewInvocation.res
    /\ resWrites = NewInvocation.resWrites
    /\ parked = NewInvocation

Init ==
    /\ env \in [TEMPO_API_TOKEN : {Nil, Some("tempo-token")},
                JIRA_API_TOKEN : {Nil, Some("jira-token")}]
    /\ upstream \in [n : RecordCounts, policy : Policies]
    /\ StartsNew

\* lines 12-84 and 174-177: the handler reads the query, validates it and
\* the token, and either answers or constructs TempoService and enters
\* getWorklogs
Handler ==
    /\ pc = "start"
    /\ \E sd \in StartDateParams, ed \in EndDateParams, f \in FormatParams :
          LET q == [startDate |-> sd, endDate |-> ed, format |-> f]
          IN  /\ req' = q
              /\ IF IsSome(Validate(q, env))
                 THEN /\ res' = Validate(q, env)
                      /\ resWrites' = resWrites + 1
                      /\ pc' = "done"
                 ELSE /\ pc' = "call"
                      /\ UNCHANGED <<res, resWrites>>
    /\ offset' = 0
    /\ hasMore' = TRUE
    /\ allWorklogs' = <<>>
    /\ UNCHANGED <<env, upstream, parked, tempoCalls, pages, jiraCalls, jiraReply,
                   returned, error>>

\* lines 181-186: the params of the call
PageParams(q, off) ==
    [from |-> Val(q.startDate), to |-> Val(q.endDate), offset |-> off, limit |-> limit]

\* lines 179-187: the loop test passed; GET /worklogs is sent
IssuePageCall ==
    /\ pc = "call"
    /\ hasMore
    /\ tempoCalls' = Append(tempoCalls, PageParams(req, offset))
    /\ pc' = "awaitPage"
    /\ UNCHANGED <<env, upstream, parked, req, offset, hasMore, allWorklogs, pages,
                   jiraCalls, jiraReply, returned, error, res, resWrites>>

\* HasResults keeping full pages only
HasResultsFullOnly(data) == IsSome(data.results) /\ Len(Val(data.results)) >= limit

\* results && results.length > 0
HasResults(data) == IsSome(data.results) /\ Len(Val(data.results)) > 0

\* NextMarker stopping at a page without results
NextMarkerNonEmpty(data) ==
    /\ IsSome(data.metadata) /\ IsSome(Val(data.metadata).next)
    /\ IsSome(data.results) /\ Len(Val(data.results)) > 0

\* NextMarker replaced by the test for a full page
NextMarkerFullPage(data) == IsSome(data.results) /\ Len(Val(data.results)) = limit

\* metadata && metadata.next
NextMarker(data) == IsSome(data.metadata) /\ IsSome(Val(data.metadata).next)

\* lines 191-193: allWorklogs after a page
Accumulate(all, data) ==
    IF HasResults(data) THEN all \o Val(data.results) ELSE all

\* NextOffset advancing by the number of the page instead of its size
NextOffsetByOne(off) == off + 1

\* offset += limit
NextOffset(off) == off + limit

\* lines 189-198: the call resolved; accumulate, read the marker, advance
PageSuccess ==
    /\ pc = "awaitPage"
    /\ \E data \in PageResponses(upstream, tempoCalls[Len(tempoCalls)], Len(tempoCalls)) :
          /\ pages' = Append(pages, data)
          /\ allWorklogs' = Accumulate(allWorklogs, data)
          /\ hasMore' = NextMarker(data)
          /\ pc' = IF NextMarker(data) THEN "call" ELSE "enrich"
    /\ offset' = NextOffset(offset)
    /\ UNCHANGED <<env, upstream, parked, req, tempoCalls, jiraCalls, jiraReply,
                   returned, error, res, resWrites>>

\* PageFailure swallowed inside the loop: the fetch ends with what it has
PageFailureKeepsPartial ==
    /\ pc = "awaitPage"
    /\ \E e \in UpstreamErrors : error' = Some(e)
    /\ pc' = "enrich"
    /\ UNCHANGED <<env, upstream, parked, req, offset, hasMore, allWorklogs, tempoCalls,
                   pages, jiraCalls, jiraReply, returned, res, resWrites>>

\* line 180 rejects: nothing in getWorklogs catches it, so the handler's
\* catch (lines 119-134) answers
PageFailure ==
    /\ pc = "awaitPage"
    /\ \E e \in UpstreamErrors :
          /\ error' = Some(e)
          /\ res' = FailureResponse(e)
    /\ resWrites' = resWrites + 1
    /\ pc' = "done"
    /\ UNCHANGED <<env, upstream, parked, req, offset, hasMore, allWorklogs, tempoCalls,
                   pages, jiraCalls, jiraReply, returned>>

\* this.jiraClient: constructed only with a JIRA_API_TOKEN (lines 76-80, 155)
HasJiraClient(e) == IsSome(e.JIRA_API_TOKEN)

\* EnrichStart without the await of line 202: the POST is sent and
\* getWorklogs goes on to the normalization at once
EnrichStartNoAwait ==
    /\ pc = "enrich"
    /\ IF HasJiraClient(env) /\ Len(allWorklogs) > 0 /\ Len(issueIds(allWorklogs)) # 0
       THEN jiraCalls' = Append(jiraCalls, JqlRequest(issueIds(allWorklogs)))
       ELSE UNCHANGED jiraCalls
    /\ pc' = "transform"
    /\ UNCHANGED <<env, upstream, parked, req, offset, hasMore, allWorklogs, tempoCalls,
                   pages, jiraReply, returned, error, res, resWrites>>

\* lines 200-227: enrichment is skipped, returns at once, or sends the POST
EnrichStart ==
    /\ pc = "enrich"
    /\ IF HasJiraClient(env) /\ Len(allWorklogs) > 0 /\ Len(issueIds(allWorklogs)) # 0
       THEN /\ jiraCalls' = Append(jiraCalls, JqlRequest(issueIds(allWorklogs)))
            /\ pc' = "awaitJira"
       ELSE /\ pc' = "transform"
            /\ UNCHANGED jiraCalls
    /\ UNCHANGED <<env, upstream, parked, req, offset, hasMore, allWorklogs, tempoCalls,
                   pages, jiraReply, returned, error, res, resWrites>>

\* lines 229-248: the POST resolved; build the map and merge, or catch
JiraResolve ==
    /\ pc = "awaitJira"
    /\ \E reply \in {r \in JiraReplies : r.ok} :
          /\ jiraReply' = Some(reply)
          /\ allWorklogs' = Enriched(allWorklogs, reply)
    /\ pc' = "transform"
    /\ UNCHANGED <<env, upstream, parked, req, offset, hasMore, tempoCalls, pages,
                   jiraCalls, returned, error, res, resWrites>>

\* JiraReject without the try/catch: the rejection reaches the handler
JiraRejectPropagates ==
    /\ pc = "awaitJira"
    /\ \E reply \in {r \in JiraReplies : ~r.ok} :
          /\ jiraReply' = Some(reply)
          /\ error' = reply.error
          /\ res' = FailureResponse(Val(reply.error))
    /\ resWrites' = resWrites + 1
    /\ pc' = "done"
    /\ UNCHANGED <<env, upstream, parked, req, offset, hasMore, allWorklogs, tempoCalls,
                   pages, jiraCalls, returned>>

\* lines 245-248: the POST rejected; the catch logs and swallows
JiraReject ==
    /\ pc = "awaitJira"
    /\ \E reply \in {r \in JiraReplies : ~r.ok} :
          jiraReply' = Some(reply)
    /\ pc' = "transform"
    /\ UNCHANGED <<env, upstream, parked, req, offset, hasMore, allWorklogs, tempoCalls,
                   pages, jiraCalls, returned, error, res, resWrites>>

\* line 205: return this.transformWorklogs(allWorklogs)
Transform ==
    /\ pc = "transform"
    /\ returned' = Some(transformWorklogs(allWorklogs))
    /\ pc' = "respond"
    /\ UNCHANGED <<env, upstream, parked, req, offset, hasMore, allWorklogs, tempoCalls,
                   pages, jiraCalls, jiraReply, error, res, resWrites>>

\* Respond without the return of line 98: a flat response is followed
\* by the wrapped one
RespondFallsThrough ==
    /\ pc = "respond"
    /\ res' = SuccessResponse([req EXCEPT !.format = Nil], Val(returned))
    /\ resWrites' = IF req.format = Some(FlatStr) THEN resWrites + 2
                     ELSE resWrites + 1
    /\ pc' = "done"
    /\ UNCHANGED <<env, upstream, parked, req, offset, hasMore, allWorklogs, tempoCalls,
                   pages, jiraCalls, jiraReply, returned, error>>

\* lines 86-117: the summary and the 200 response
Respond ==
    /\ pc = "respond"
    /\ res' = SuccessResponse(req, Val(returned))
    /\ resWrites' = resWrites + 1
    /\ pc' = "done"
    /\ UNCHANGED <<env, upstream, parked, req, offset, hasMore, allWorklogs, tempoCalls,
                   pages, jiraCalls, jiraReply, returned, error>>

\* the invocation that runs, as a record
Running ==
    [pc |-> pc, req |-> req, offset |-> offset, hasMore |-> hasMore,
     allWorklogs |-> allWorklogs, tempoCalls |-> tempoCalls, pages |-> pages,
     jiraCalls |-> jiraCalls, jiraReply |-> jiraReply, returned |-> returned,
     error |-> error, res |-> res, resWrites |-> resWrites]

\* AccumulatorOf with allWorklogs hoisted out of getWorklogs to the
\* module: the resumed invocation reads the array the other one wrote
AccumulatorShared(f) == allWorklogs

\* line 174: const allWorklogs belongs to the call of getWorklogs, so
\* the resumed invocation reads its own
AccumulatorOf(f) == f.allWorklogs

\* an invocation lets the event loop run another one only where it
\* awaits a network call; one that has not started or has ended does
\* not run either
Suspended == pc \in {"start", "awaitPage", "awaitJira", "done"}

\* the event loop turns to the other invocation: each has its own
\* req, context, TempoService and getWorklogs locals (lines 12-17, 83,
\* 174-177)
Yield ==
    /\ Suspended
    /\ parked' = Running
    /\ pc' = parked.pc
    /\ req' = parked.req
    /\ offset' = parked.offset
    /\ hasMore' = parked.hasMore
    /\ allWorklogs' = AccumulatorOf(parked)
    /\ tempoCalls' = parked.tempoCalls
    /\ pages' = parked.pages
    /\ jiraCalls' = parked.jiraCalls
    /\ jiraReply' = parked.jiraReply
    /\ returned' = parked.returned
    /\ error' = parked.error
    /\ res' = parked.res
    /\ resWrites' = parked.resWrites
    /\ UNCHANGED <<env, upstream>>

Next ==
    \/ Handler
    \/ IssuePageCall
    \/ PageSuccess
    \/ PageFailure
    \/ EnrichStart
    \/ JiraResolve
    \/ JiraReject
    \/ Transform
    \/ Respond

Spec == Init /\ [][Next]_vars

\* two invocations of the function in one process, against an upstream of
\* two pages and with both tokens configured
ConcInit ==
    /\ env = [TEMPO_API_TOKEN |-> Some("tempo-token"),
              JIRA_API_TOKEN |-> Some("jira-token")]
    /\ upstream = [n |-> limit + 1, policy |-> "markFull"]
    /\ StartsNew

\* the queries of the two invocations: a flat one, a wrapped one over
\* other dates, and one without parameters
ConcQueries ==
    {[startDate |-> Some(D20260101), endDate |-> Some(D20260131),
      format |-> Some(FlatStr)],
     [startDate |-> Some(D20261345), endDate |-> Some(D20260131),
      format |-> Nil],
     NoQuery}

ConcNext ==
    \/ Handler /\ req' \in ConcQueries
    \/ IssuePageCall
    \/ PageSuccess
    \/ PageFailure
    \/ EnrichStart
    \/ JiraResolve
    \/ JiraReject
    \/ Transform
    \/ Respond
    \/ Yield

ConcSpec == ConcInit /\ [][ConcNext]_vars

\* the page loop under fairness: the event loop runs the continuation of
\* getWorklogs whenever it is ready (the next call is sent), and the
\* upstream answers every outstanding page call, with a response or an
\* error
FairSpec ==
    /\ Spec
    /\ WF_vars(IssuePageCall)
    /\ WF_vars(PageSuccess \/ PageFailure)

----------------------------------------------------------------------------
(* Properties *)

\* the response carries a next-page marker
CarriesMarker(data) == data.metadata # Nil /\ data.metadata[1].next # Nil

\* the results of one page response, none when the field is missing
ResultsOf(data) == IF IsSome(data.results) THEN Val(data.results) ELSE <<>>

RECURSIVE ConcatFirst(_, _)
\* the results of the first k page responses, concatenated in order
ConcatFirst(ps, k) ==
    IF k = 0 THEN <<>> ELSE ConcatFirst(ps, k - 1) \o ResultsOf(ps[k])

\* the results of the page responses, concatenated in fetch order
ConcatPages(ps) == ConcatFirst(ps, Len(ps))

RECURSIVE SizesFirst(_, _)
SizesFirst(ps, k) ==
    IF k = 0 THEN 0 ELSE SizesFirst(ps, k - 1) + Len(ResultsOf(ps[k]))

\* the sum of the sizes of the page responses
SumOfSizes(ps) == SizesFirst(ps, Len(ps))

\* every page call was answered and the last answer carried no marker
FetchCompleted ==
    /\ Len(pages) >= 1
    /\ Len(pages) = Len(tempoCalls)
    /\ ~CarriesMarker(pages[Len(pages)])

\* C1: once getWorklogs has returned, its output holds one record per
\* upstream result: as many records as the fetched pages held in total,
\* the k-th of them derived from the k-th result of the concatenation of
\* the pages in fetch order (so none is dropped, duplicated or moved).
C1_OneRecordPerResult ==
    IsSome(returned) =>
        LET out == Val(returned)
            fetched == ConcatPages(pages)
        IN  /\ FetchCompleted
            /\ Len(out) = SumOfSizes(pages)
            /\ Len(out) = Len(fetched)
            /\ \A k \in 1..Len(out) :
                  /\ out[k].id = fetched[k].tempoWorklogId
                  /\ out[k].timeSpentSeconds = fetched[k].timeSpentSeconds
                  /\ out[k].issueId = IssueIdOf(fetched[k])
            /\ \A j, k \in 1..Len(out) : j # k => out[j].id # out[k].id

\* C1 witness: getWorklogs returned the records of two non-empty pages
C1_Witness ==
    /\ IsSome(returned)
    /\ Len(pages) >= 2
    /\ Len(ResultsOf(pages[1])) > 0
    /\ Len(ResultsOf(pages[2])) > 0
    /\ Len(Val(returned)) > limit

\* ceil((n + 1) / limit)
CeilNPlus1(n) == (n + limit) \div limit

\* C2 as stated: when the fetch has completed against an upstream holding
\* N records, exactly ceil((N+1)/50) list calls were issued.
C2_Original ==
    FetchCompleted => Len(tempoCalls) = CeilNPlus1(upstream.n)

\* C2 amended: the number of list calls is the position of the first
\* response without a next marker (every earlier response carried one);
\* against an upstream that attaches the marker to exactly the pages
\* carrying 50 records this is ceil((N+1)/50), and against one that
\* attaches it while records remain it is max(1, ceil(N/50)).
C2_CallsUpToFirstMarkerless ==
    FetchCompleted =>
        /\ \A k \in 1..(Len(pages) - 1) : CarriesMarker(pages[k])
        /\ \A k \in 1..Len(tempoCalls) : tempoCalls[k].offset = limit * (k - 1)
        /\ upstream.policy = "markFull" =>
              Len(tempoCalls) = CeilNPlus1(upstream.n)
        /\ upstream.policy = "markRemaining" =>
              Len(tempoCalls) = IF upstream.n = 0 THEN 1
                                ELSE (upstream.n + limit - 1) \div limit

\* C2 witness: a full page with a marker was followed by the empty page
\* that discovers exhaustion
C2_Witness ==
    /\ FetchCompleted
    /\ upstream.policy = "markFull"
    /\ upstream.n = limit
    /\ Len(tempoCalls) = 2
    /\ Len(ResultsOf(pages[2])) = 0

\* the page loop is running
Fetching == pc \in {"call", "awaitPage"}

\* C3, the safety part: call k+1 has been issued only if response k
\* succeeded and carried a next marker, and once response k has carried a
\* marker call k+1 is issued or about to be, whatever response k held; a
\* response without a marker ends the loop.
C3_CallIffMarker ==
    /\ \A k \in 1..(Len(tempoCalls) - 1) :
          k <= Len(pages) /\ CarriesMarker(pages[k])
    /\ \A k \in 1..Len(pages) :
          /\ CarriesMarker(pages[k]) =>
                Len(tempoCalls) > k \/ (Len(tempoCalls) = k /\ pc = "call")
          /\ ~CarriesMarker(pages[k]) =>
                Len(tempoCalls) = k /\ Len(pages) = k /\ ~Fetching

\* C3: the loop runs exactly as long as the upstream reports a next page
\* (C3_CallIffMarker in every state), a call that is due is issued, and
\* the fetch, once started, eventually completes or fails.
C3_LoopEndsWithMarker ==
    /\ []C3_CallIffMarker
    /\ (pc = "call") ~> (pc = "awaitPage")
    /\ Fetching ~> ~Fetching

\* C3 witness: a response without results but with a marker was followed
\* by one more call
C3_Witness ==
    \E k \in 1..Len(pages) :
        /\ Len(ResultsOf(pages[k])) = 0
        /\ CarriesMarker(pages[k])
        /\ Len(tempoCalls) > k

\* C4: once a page call has failed the request is over: the failing call
\* is the last list call, no issue call was made, normalization did not
\* run, and the response is the failure response, which carries none of
\* the worklogs accumulated from earlier pages.
C4_FetchFailureIsFatal ==
    IsSome(error) =>
        /\ pc = "done"
        /\ Len(tempoCalls) = Len(pages) + 1
        /\ jiraCalls = <<>>
        /\ jiraReply = Nil
        /\ returned = Nil
        /\ resWrites = 1
        /\ IsSome(res)
        /\ Val(res).status # 200
        /\ Val(res).status = IF IsSome(Val(error).response)
                             THEN Val(Val(error).response).status ELSE 500
        /\ ~Val(res).body.isArray
        /\ DOMAIN Val(res).body.props = {"error", "message", "details"}
        /\ Val(res).body.props.error = "Failed to retrieve worklogs"

\* C4 witness: a later page failed after an earlier page had delivered
\* worklogs
C4_Witness ==
    /\ IsSome(error)
    /\ Len(pages) >= 1
    /\ Len(allWorklogs) > 0
    /\ pc = "done"

\* the issue lookup ended in a failure: the POST rejected, or its
\* response was malformed
LookupFailed ==
    /\ IsSome(jiraReply)
    /\ \/ ~Val(jiraReply).ok
       \/ Val(jiraReply).data = Nil
       \/ Val(Val(jiraReply).data).issues = Nil
       \/ \E k \in DOMAIN Val(Val(Val(jiraReply).data).issues) :
             Val(Val(Val(jiraReply).data).issues)[k].fields = Nil

\* C5: a failed issue lookup never fails the request: no error reaches
\* the handler, normalization runs on as many records as were fetched,
\* and the response is a 200 (never the status of the lookup's error).
C5_EnrichmentNeverFails ==
    LookupFailed =>
        /\ pc \in {"transform", "respond", "done"}
        /\ error = Nil
        /\ pc \in {"respond", "done"} =>
              /\ IsSome(returned)
              /\ Len(Val(returned)) = SumOfSizes(pages)
        /\ pc = "done" =>
              /\ IsSome(res)
              /\ Val(res).status = 200
              /\ resWrites = 1

\* C5 witness: the lookup was rejected with a status of its own and the
\* request was answered
C5_Witness ==
    /\ LookupFailed
    /\ ~Val(jiraReply).ok
    /\ IsSome(Val(Val(jiraReply).error).response)
    /\ pc = "done"
    /\ Len(Val(returned)) > 0

\* a query parameter that holds a day of the calendar as YYYY-MM-DD
IsCalendarDate(p) ==
    /\ IsSome(p)
    /\ dateRegex(Val(p))
    /\ MonthOf(Val(p)) \in 1..12
    /\ DayOf(Val(p)) \in 1..DaysInMonth(YearOf(Val(p)), MonthOf(Val(p)))

\* the query has a missing date, a malformed date or an inverted range
InvalidQuery(q) ==
    \/ Falsy(q.startDate) \/ Falsy(q.endDate)
    \/ ~IsCalendarDate(q.startDate) \/ ~IsCalendarDate(q.endDate)
    \/ Val(NewDate(Val(q.startDate))) > Val(NewDate(Val(q.endDate)))

\* C6 as stated: once the handler has read the query, a request with a
\* missing date, a malformed date or an inverted range has been answered
\* with 400, and any other request without the time-tracking token with
\* 500, in both cases without a single upstream call.
C6_Original ==
    pc # "start" =>
        /\ InvalidQuery(req) =>
              /\ pc = "done"
              /\ Val(res).status = 400
              /\ tempoCalls = <<>> /\ jiraCalls = <<>>
        /\ (~InvalidQuery(req) /\ env.TEMPO_API_TOKEN = Nil) =>
              /\ pc = "done"
              /\ Val(res).status = 500
              /\ tempoCalls = <<>> /\ jiraCalls = <<>>

\* the pipeline ran to its end and the handler answered
SuccessDone == pc = "done" /\ IsSome(returned)

RECURSIVE SecondsByValue(_, _)
\* the sum of timeSpentSeconds over the records, counted value by value
SecondsByValue(out, values) ==
    IF values = {} THEN 0
    ELSE LET v == CHOOSE x \in values : TRUE
         IN  v * Cardinality({k \in 1..Len(out) : out[k].timeSpentSeconds = v})
             + SecondsByValue(out, values \ {v})

\* C7: after a successful run, format=flat is answered with the bare
\* array of the records, and any other format with the wrapper whose
\* worklogs are those records in order, whose totalWorklogs is their
\* number and whose totalSeconds is the sum of their timeSpentSeconds.
C7_FlatOrWrapped ==
    SuccessDone =>
        LET out == Val(returned)
            body == Val(res).body
        IN  /\ Val(res).status = 200
            /\ IF req.format = Some(FlatStr)
               THEN /\ body.isArray
                    /\ DOMAIN body = {"isArray", "elems"}
                    /\ body.elems = out
               ELSE /\ ~body.isArray
                    /\ DOMAIN body.props = {"success", "query", "summary", "worklogs"}
                    /\ body.props.worklogs = out
                    /\ body.props.summary.totalWorklogs = Len(out)
                    /\ body.props.summary.totalSeconds =
                          SecondsByValue(out, Range(SecondsTable))

\* C7 witness: two pages of records were answered in a format other
\* than flat
C7_Witness ==
    /\ SuccessDone
    /\ req.format = Some(JsonStr)
    /\ Len(Val(returned)) > limit
    /\ Val(res).body.props.summary.totalSeconds > 0

\* a raw worklog without issue, author and description
AllAbsent(w) == w.issue = Nil /\ w.author = Nil /\ w.description = Nil

\* C8: normalization always yields a result (the run goes on to the
\* response, no error), one record per raw worklog and in the same order,
\* and a raw worklog without issue, author and description gets the
\* documented defaults.
C8_NormalizationTotal ==
    /\ pc = "respond" => IsSome(returned) /\ error = Nil
    /\ IsSome(returned) =>
          LET out == Val(returned)
          IN  /\ Len(out) = Len(allWorklogs)
              /\ \A k \in 1..Len(out) :
                    /\ out[k].id = allWorklogs[k].tempoWorklogId
                    /\ AllAbsent(allWorklogs[k]) =>
                          /\ out[k].issueKey = "N/A"
                          /\ out[k].issueId = Nil
                          /\ out[k].issueSummary = Nil
                          /\ out[k].author = [accountId |-> Nil, displayName |-> "Unknown"]
                          /\ out[k].description = ""

\* C8 witness: a raw worklog without issue, author and description was
\* normalized, among others
C8_Witness ==
    /\ IsSome(returned)
    /\ Len(allWorklogs) > 1
    /\ \E k \in 1..Len(allWorklogs) : AllAbsent(allWorklogs[k])

\* enrichment is configured
Configured == env.JIRA_API_TOKEN # Nil

\* the non-null issue identifiers the worklogs reference
ReferencedIds(ws) ==
    {ws[k].issue[1].id[1] :
        k \in {j \in 1..Len(ws) : ws[j].issue # Nil /\ ws[j].issue[1].id # Nil}}

\* C9 as stated: at the end of a request, the issue-tracking service was
\* called (once) exactly when enrichment is configured, at least one
\* worklog was fetched and at least one worklog references an identifier.
C9_Original ==
    pc = "done" =>
        /\ Len(jiraCalls) <= 1
        /\ Len(jiraCalls) = 1 <=>
              /\ Configured
              /\ Len(ConcatPages(pages)) > 0
              /\ ReferencedIds(ConcatPages(pages)) # {}

\* C9 amended: the issue-tracking service is called at most once, and
\* exactly when every page call succeeded (the fetch completed),
\* enrichment is configured, at least one worklog was fetched and at
\* least one references an identifier; the call asks for exactly the
\* distinct referenced identifiers, each once, with maxResults their number.
C9_OneLookupWhenNeeded ==
    LET fetched == ConcatPages(pages)
    IN  /\ Len(jiraCalls) <= 1
        /\ pc \in {"start", "call", "awaitPage", "enrich"} => jiraCalls = <<>>
        /\ pc \in {"awaitJira", "transform", "respond", "done"} =>
              (Len(jiraCalls) = 1 <=>
                  /\ FetchCompleted
                  /\ Configured
                  /\ Len(fetched) > 0
                  /\ ReferencedIds(fetched) # {})
        /\ Len(jiraCalls) = 1 =>
              /\ Range(jiraCalls[1].jql.isIn) = ReferencedIds(fetched)
              /\ Len(jiraCalls[1].jql.isIn) = Cardinality(ReferencedIds(fetched))
              /\ jiraCalls[1].maxResults = Cardinality(ReferencedIds(fetched))

\* C9 witness: the lookup was sent for worklogs of which two reference
\* the same identifier
C9_Witness ==
    /\ Len(jiraCalls) = 1
    /\ \E j, k \in 1..Len(allWorklogs) :
          /\ j # k
          /\ allWorklogs[j].issue # Nil
          /\ allWorklogs[j].issue[1].id # Nil
          /\ allWorklogs[j].issue = allWorklogs[k].issue

\* the issues a successful lookup returned
LookupIssues == Val(Val(Val(jiraReply).data).issues)

\* the lookup succeeded and the merge has run
EnrichSucceeded == IsSome(jiraReply) /\ ~LookupFailed

\* the lookup result has an entry for identifier n
Matched(n) == \E j \in DOMAIN LookupIssues : LookupIssues[j].id = n

\* C10: after a successful enrich the collection has the length and order
\* it was fetched with; a worklog whose identifier is matched carries the
\* match's key and summary and is otherwise as fetched (identifier and
\* all other fields); every other worklog is exactly as fetched; and when
\* every referenced identifier is matched, every output record with an
\* issue identifier carries a resolved key.
C10_MergeFrame ==
    EnrichSucceeded =>
        LET fetched == ConcatPages(pages)
        IN  /\ Len(allWorklogs) = Len(fetched)
            /\ \A k \in 1..Len(fetched) :
                  LET raw == fetched[k]
                      now == allWorklogs[k]
                  IN  IF raw.issue # Nil /\ raw.issue[1].id # Nil
                         /\ Matched(raw.issue[1].id[1])
                      THEN /\ [now EXCEPT !.issue = raw.issue] = raw
                           /\ now.issue # Nil
                           /\ now.issue[1].id = raw.issue[1].id
                           /\ \E j \in DOMAIN LookupIssues :
                                 /\ LookupIssues[j].id = raw.issue[1].id[1]
                                 /\ now.issue[1].key = LookupIssues[j].key
                                 /\ now.issue[1].summary = LookupIssues[j].fields[1].summary
                      ELSE now = raw
            /\ (IsSome(returned)
                /\ \A n \in ReferencedIds(fetched) : Matched(n)) =>
                  \A k \in 1..Len(Val(returned)) :
                      Val(returned)[k].issueId # Nil =>
                          Val(returned)[k].issueKey = KeyOf(Val(returned)[k].issueId[1])

\* C10 witness: the merge rewrote a matched worklog and met a worklog
\* that came with a key and has no match
C10_Witness ==
    /\ EnrichSucceeded
    /\ \E k \in 1..Len(allWorklogs) : allWorklogs[k] # ConcatPages(pages)[k]
    /\ \E k \in 1..Len(allWorklogs) :
          /\ allWorklogs[k].issue # Nil
          /\ allWorklogs[k].issue[1].id # Nil
          /\ ~Matched(allWorklogs[k].issue[1].id[1])
          /\ allWorklogs[k].issue[1].key # Nil

\* C11: enrichment is idempotent: once the lookup has resolved and enrich
\* has run, running enrich again on the collection with the same lookup
\* result asks for the same identifiers and changes no field of any
\* worklog, so every worklog in the lookup result keeps the key and
\* summary the first run gave it.
C11_EnrichIdempotent ==
    (IsSome(jiraReply) /\ Val(jiraReply).ok) =>
        /\ issueIds(allWorklogs) = jiraCalls[1].jql.isIn
        /\ Enriched(allWorklogs, Val(jiraReply)) = allWorklogs
        /\ \A k \in 1..Len(allWorklogs) :
              LET again == Enriched(allWorklogs, Val(jiraReply))[k]
              IN  /\ again.issue = allWorklogs[k].issue
                  /\ again.tempoWorklogId = allWorklogs[k].tempoWorklogId

\* C11 witness: the first run rewrote a worklog that came with a key and
\* a summary of its own
C11_Witness ==
    /\ EnrichSucceeded
    /\ \E k \in 1..Len(allWorklogs) :
          /\ allWorklogs[k] # ConcatPages(pages)[k]
          /\ ConcatPages(pages)[k].issue[1].summary # Nil

\* the label of the failure body
FailureLabel == "Failed to retrieve worklogs"

\* C12: when the pipeline has failed, the response has the status the
\* error carries, or 500 when it carries none, and its body holds the
\* label "Failed to retrieve worklogs", a message (the upstream body's
\* message when there is one, else the error's own) and the details (the
\* upstream body when there is one, else null); the response to a
\* pipeline that succeeded never has this body.
C12_FailureResponseShape ==
    /\ IsSome(error) =>
          LET e == Val(error)
              body == Val(res).body
          IN  /\ IsSome(res)
              /\ Val(res).status = IF e.response # Nil THEN e.response[1].status ELSE 500
              /\ ~body.isArray
              /\ DOMAIN body.props = {"error", "message", "details"}
              /\ body.props.error = FailureLabel
              /\ body.props.message =
                    IF e.response # Nil /\ e.response[1].data # Nil
                       /\ e.response[1].data[1].message # Nil
                    THEN e.response[1].data[1].message[1]
                    ELSE e.message
              /\ body.props.details =
                    IF e.response # Nil THEN e.response[1].data ELSE Nil
    /\ SuccessDone =>
          /\ error = Nil
          /\ Val(res).body.isArray \/ "error" \notin DOMAIN Val(res).body.props

\* C12 witness: a page call failed with a status and a body without a
\* message
C12_Witness ==
    /\ IsSome(error)
    /\ Val(error).response # Nil
    /\ Val(error).response[1].data # Nil
    /\ Val(error).response[1].data[1].message = Nil
    /\ pc = "done"

\* the lookup returned a list whose entry at position k is malformed
\* while an earlier, well-formed entry is referenced by a worklog
MalformedPartWay ==
    /\ IsSome(jiraReply)
    /\ Val(jiraReply).ok
    /\ Val(jiraReply).data # Nil
    /\ Val(Val(jiraReply).data).issues # Nil
    /\ \E k \in DOMAIN LookupIssues :
          /\ LookupIssues[k].fields = Nil
          /\ \E j \in 1..(k - 1) :
                /\ LookupIssues[j].fields # Nil
                /\ \E h \in 1..Len(allWorklogs) :
                      /\ allWorklogs[h].issue # Nil
                      /\ allWorklogs[h].issue[1].id = Some(LookupIssues[j].id)

\* C13: enrichment is all-or-nothing: when the lookup or the building of
\* the map has failed, every worklog is exactly as fetched, key and
\* summary included; the collection differs from what was fetched only
\* when the lookup resolved and the whole map was built.
C13_AllOrNothing ==
    /\ LookupFailed =>
          /\ allWorklogs = ConcatPages(pages)
          /\ \A k \in 1..Len(allWorklogs) :
                allWorklogs[k].issue # Nil =>
                   /\ allWorklogs[k].issue[1].key = ConcatPages(pages)[k].issue[1].key
                   /\ allWorklogs[k].issue[1].summary =
                         ConcatPages(pages)[k].issue[1].summary
    /\ (pc \notin {"start", "call", "awaitPage"} /\ error = Nil
        /\ allWorklogs # ConcatPages(pages)) => EnrichSucceeded

\* C13 witness: the map building failed at the second entry, after an
\* entry that a fetched worklog references, and the pipeline went on
C13_Witness ==
    /\ MalformedPartWay
    /\ LookupFailed
    /\ pc = "done"
    /\ Val(res).status = 200

\* the page calls that have ended: answered with a page, or rejected
CompletedCalls == Len(pages) + (IF IsSome(error) THEN 1 ELSE 0)

\* the page calls sent and not yet ended
OutstandingCalls == Len(tempoCalls) - CompletedCalls

\* C14: the k-th page call carries offset 50*(k-1), limit 50 and the
\* request's own from/to; at most one page call is outstanding, and one
\* is outstanding exactly while getWorklogs awaits it, so call k is sent
\* only when calls 1..k-1 have ended.
C14_SequentialPagination ==
    /\ \A k \in 1..Len(tempoCalls) :
          /\ tempoCalls[k].offset = 50 * (k - 1)
          /\ tempoCalls[k].limit = 50
          /\ tempoCalls[k].from = req.startDate[1]
          /\ tempoCalls[k].to = req.endDate[1]
          /\ DOMAIN tempoCalls[k] = {"from", "to", "offset", "limit"}
    /\ OutstandingCalls \in {0, 1}
    /\ OutstandingCalls = 1 <=> pc = "awaitPage"
    /\ pc = "call" => Len(pages) = Len(tempoCalls)

\* C14 witness: a third page call is outstanding after two answered ones
C14_Witness ==
    /\ Len(tempoCalls) = 3
    /\ Len(pages) = 2
    /\ pc = "awaitPage"
    /\ tempoCalls[3].offset = 100

\* the enrichment stage is over: skipped, or its lookup has ended
EnrichmentOver == jiraCalls = <<>> \/ IsSome(jiraReply)

\* the stages an invocation has been through, as far as its state shows
StagesInOrder ==
    /\ Len(jiraCalls) > 0 =>
          /\ FetchCompleted
          /\ pc \notin {"start", "call", "awaitPage"}
    /\ IsSome(returned) =>
          /\ FetchCompleted
          /\ EnrichmentOver
    /\ (IsSome(res) /\ Val(res).status = 200) => IsSome(returned)

\* each step of an invocation respects the order of the stages
StageSteps ==
    /\ jiraCalls' # jiraCalls =>
          /\ FetchCompleted
          /\ returned = Nil /\ res = Nil
    /\ Len(jiraCalls) > 0 => tempoCalls' = tempoCalls
    /\ returned' # returned =>
          /\ EnrichmentOver
          /\ tempoCalls' = tempoCalls /\ jiraCalls' = jiraCalls
          /\ res = Nil
    /\ (res' # res /\ IsSome(returned)) =>
          /\ tempoCalls' = tempoCalls /\ jiraCalls' = jiraCalls
          /\ returned' = returned

\* C15: within an invocation the issue lookup is sent only after the
\* page without a next marker has been received, the normalization runs
\* only after the enrichment was skipped or its lookup ended (resolved or
\* rejected), the 200 response is written only after the normalization,
\* and no page call is sent once the issue lookup has been sent.
C15_StageOrder == [](StagesInOrder) /\ [][StageSteps]_vars

\* C15 witness: an invocation went through two page calls, the lookup,
\* the normalization and the response
C15_Witness ==
    /\ pc = "done"
    /\ Len(tempoCalls) >= 2
    /\ Len(jiraCalls) = 1
    /\ IsSome(jiraReply)
    /\ IsSome(returned)
    /\ IsSome(res) /\ Val(res).status = 200

\* the labels of the three validation responses
ValidationLabels ==
    {"Missing required parameters", "Invalid date format", "Invalid date range"}

\* the label of an object body, Nil for an array or an unlabelled object
LabelOf(body) ==
    IF ~body.isArray /\ "error" \in DOMAIN body.props
    THEN Some(body.props.error) ELSE Nil

\* the paths a written response can come from
OnValidationPath ==
    /\ Val(res).status = 400
    /\ LabelOf(Val(res).body) \in {Some(l) : l \in ValidationLabels}
    /\ tempoCalls = <<>> /\ error = Nil /\ returned = Nil
OnMissingTokenPath ==
    /\ Val(res).status = 500
    /\ LabelOf(Val(res).body) = Some("Configuration error")
    /\ env.TEMPO_API_TOKEN = Nil
    /\ tempoCalls = <<>> /\ error = Nil /\ returned = Nil
OnSuccessPath ==
    /\ Val(res).status = 200
    /\ LabelOf(Val(res).body) = Nil
    /\ IsSome(returned) /\ error = Nil
    /\ Val(res).body.isArray <=> req.format = Some(FlatStr)
OnFailurePath ==
    /\ LabelOf(Val(res).body) = Some(FailureLabel)
    /\ IsSome(error) /\ returned = Nil

PathsTaken ==
    Cardinality({i \in 1..4 :
        \/ i = 1 /\ OnValidationPath
        \/ i = 2 /\ OnMissingTokenPath
        \/ i = 3 /\ OnSuccessPath
        \/ i = 4 /\ OnFailurePath})

\* an invocation that has ended wrote once, on one path; one that has
\* not ended has written nothing
OneResponse ==
    /\ pc = "done" =>
          /\ IsSome(res)
          /\ resWrites = 1
          /\ PathsTaken = 1
    /\ pc # "done" => res = Nil /\ resWrites = 0

\* C17: every invocation that has ended has written exactly one
\* response, on exactly one of the paths validation (400), missing token
\* (500), success (200, flat or wrapped) and pipeline failure; none ends
\* without a response, and a response once written is never replaced.
C17_ExactlyOneResponse ==
    [](OneResponse) /\ [][res # Nil => res' = res /\ resWrites' = resWrites]_vars

\* C17 witness: an invocation with format=flat has ended with its array
C17_Witness ==
    /\ pc = "done"
    /\ OnSuccessPath
    /\ Val(res).body.isArray
    /\ resWrites = 1

\* n hundredths written with two decimals
FixedPoint2(n) ==
    ToString(n \div 100) \o "."
        \o (IF n % 100 < 10 THEN "0" ELSE "") \o ToString(n % 100)

\* n is a count of hundredths nearest to s / 3600: 100 * s / 3600 is
\* s / 36, and n is within one half of it
NearestHundredths(n, s) == 36 * n - s <= 18 /\ s - 36 * n <= 18

\* C18: every output record carries the timeSpentSeconds of the raw
\* worklog it was made from, and its timeSpentHours is that number of
\* seconds divided by 3600, rounded to a nearest hundredth and written
\* with two decimals; 5400 seconds are written "1.50".
C18_SecondsAndHours ==
    IsSome(returned) =>
        \A k \in 1..Len(Val(returned)) :
            LET out == Val(returned)[k]
                s == ConcatPages(pages)[k].timeSpentSeconds
            IN  /\ out.timeSpentSeconds = s
                /\ \E n \in {s \div 36, s \div 36 + 1} :
                      /\ NearestHundredths(n, s)
                      /\ out.timeSpentHours = FixedPoint2(n)
                /\ s = 5400 => out.timeSpentHours = "1.50"

\* C18 witness: the output holds a record of 5400 seconds, one whose
\* quotient needs rounding and one whose quotient lies half-way between
\* two hundredths
C18_Witness ==
    /\ IsSome(returned)
    /\ \E k \in 1..Len(Val(returned)) :
          /\ Val(returned)[k].timeSpentSeconds = 5400
          /\ Val(returned)[k].timeSpentHours = "1.50"
    /\ \E k \in 1..Len(Val(returned)) :
          /\ Val(returned)[k].timeSpentSeconds = 5399
          /\ Val(returned)[k].timeSpentHours = "1.50"
    /\ \E k \in 1..Len(Val(returned)) :
          Val(returned)[k].timeSpentSeconds % 36 = 18

\* what an invocation holds is what it would hold had it run alone with
\* its own query, the page responses it received and the lookup reply it
\* received
RunsAsAlone(f) ==
    /\ \A k \in 1..Len(f.tempoCalls) :
          f.tempoCalls[k] = [from |-> f.req.startDate[1], to |-> f.req.endDate[1],
                             offset |-> 50 * (k - 1), limit |-> 50]
    /\ \A k \in 1..Len(f.pages) :
          f.pages[k] \in PageResponses(upstream, f.tempoCalls[k], k)
    /\ f.pc \notin {"start", "done"} \/ IsSome(f.returned) \/ IsSome(f.error)
          => f.offset = 50 * Len(f.pages)
    /\ f.allWorklogs =
          IF IsSome(f.jiraReply) /\ f.jiraReply[1].ok
          THEN Enriched(ConcatPages(f.pages), f.jiraReply[1])
          ELSE ConcatPages(f.pages)
    /\ Len(f.jiraCalls) <= 1
    /\ \A k \in 1..Len(f.jiraCalls) :
          f.jiraCalls[k] = JqlRequest(issueIds(ConcatPages(f.pages)))
    /\ IsSome(f.returned) => f.returned = Some(transformWorklogs(f.allWorklogs))
    /\ f.res =
          IF f.pc # "done" THEN Nil
          ELSE IF IsSome(f.error) THEN FailureResponse(f.error[1])
          ELSE IF IsSome(f.returned) THEN SuccessResponse(f.req, f.returned[1])
          ELSE Validate(f.req, env)

\* C16: two invocations interleaved at their network calls do not
\* interfere: the page calls of each carry its own dates and its own
\* offsets 0, 50, ..., its accumulated worklogs are the results of the
\* pages it received itself (merged with the lookup reply it received
\* itself), and its output and response are those of its own data, as
\* when it runs alone.
C16_NoInterference == RunsAsAlone(Running) /\ RunsAsAlone(parked)

\* C16 witness: one invocation awaits its second page while the other,
\* with another query, has both pages and awaits its issue lookup
C16_Witness ==
    /\ pc = "awaitPage"
    /\ Len(pages) = 1
    /\ Len(allWorklogs) = limit
    /\ parked.pc = "awaitJira"
    /\ Len(parked.pages) = 2
    /\ parked.req # req

====
